---- MODULE Spec2Model ----
(***************************************************************************)
(* psyCore: the emulator's CPU core (emulator/src/cpu.py) and its          *)
(* instruction object (emulator/src/instruction.py).                       *)
(*                                                                         *)
(* A Python string is a sequence of one-character strings.  A cpu object   *)
(* is a record whose fields are the attributes cpu.__init__ creates; a     *)
(* method is an operator from the object to the pair (object after the     *)
(* call, exception raised by the call).                                    *)
(***************************************************************************)
EXTENDS Integers, Sequences, FiniteSets, TLC

\* ------------------------------------------------------------------------
\* Bounds of the model
\* ------------------------------------------------------------------------
MaxLen == 6          \* longest input line handed to the line normaliser
MaxCalls == 4        \* number of method calls made on the core
MaxStat == 2         \* largest statReg / nCyclesLost / W[0] value drawn as a prior value
NCores == 2          \* number of cores stepped in lock-step
MaxTicks == 3        \* number of global clock ticks of the lock-step driver
MaxText == 5         \* longest line handed to the functions of instruction.py

\* ------------------------------------------------------------------------
\* Constants pool (cpu.py)
\* ------------------------------------------------------------------------
INSTRUCTION_MEM_SIZE == 1024
DATA_MEM_SIZE == 1024
N_WORK_REGS == 16

VARIABLES
  line,       \* input of the line normaliser
  results,    \* outputs of the successive cpu._asmReaderFormatLine calls
  cpu0,       \* the cpu object (single core)
  lastOp,     \* name of the last method called
  arg,        \* argument of the last method call (0 if it takes none)
  exc,        \* exception raised by the last method call ("none" if it returned)
  nCalls,     \* number of method calls made so far
  stepsAtPC,  \* number of step() calls made since PC last changed
  onlySteps,  \* every method call made so far was a step() call
  consumed,   \* outcome of the cpu._asmReaderConsumeSpace call on the line
  cpu,        \* Instruction.cpu: the list of cores of the multi-core context
  arrived,    \* per core: stepped at least once on the MEET it is standing on
  nTicks,     \* number of global clock ticks done
  text,       \* line handed to the functions of instruction.py
  call,       \* the call made on instruction.py: function and arguments
  ret         \* outcome of that call: value returned and exception raised

vars == <<line, results, cpu0, lastOp, arg, exc, nCalls, stepsAtPC, onlySteps, consumed,
          cpu, arrived, nTicks, text, call, ret>>

\* ========================================================================
\* STRINGS
\* ========================================================================
LowerCase == <<"a","b","c","d","e","f","g","h","i","j","k","l","m",
               "n","o","p","q","r","s","t","u","v","w","x","y","z">>
UpperCase == <<"A","B","C","D","E","F","G","H","I","J","K","L","M",
               "N","O","P","Q","R","S","T","U","V","W","X","Y","Z">>

\* str.upper() on one character
upperChar(c) ==
  IF \E k \in 1..Len(LowerCase) : LowerCase[k] = c
  THEN UpperCase[CHOOSE k \in 1..Len(LowerCase) : LowerCase[k] = c]
  ELSE c

\* The string left as it is
upper_none(s) == s

\* str.upper()
upper(s) == [k \in 1..Len(s) |-> upperChar(s[k])]

\* Characters the input lines are built from: a sample of the allowed alphabet
Alphabet == {" ", ",", "a", "B"}

RECURSIVE StringsOfLen(_)
StringsOfLen(n) ==
  IF n = 0 THEN {<<>>}
  ELSE {Append(s, c) : s \in StringsOfLen(n - 1), c \in Alphabet}

Strings == UNION {StringsOfLen(n) : n \in 0..MaxLen}

\* ========================================================================
\* cpu._asmReaderFormatLine
\* ========================================================================
\* The loop body whose ARG state writes a space in place of a comma that is
\* followed by an argument
FormatLineIter_commaToSpace(st, ln, i) ==
  LET c      == ln[i]
      isLast == (i = Len(ln))
  IN
  IF st.state = "INIT" THEN
    IF c # " "
    THEN [st EXCEPT !.output = Append(st.output, c), !.state = "MNEMONIC"]
    ELSE st
  ELSE IF st.state = "MNEMONIC" THEN
    [st EXCEPT !.output = Append(st.output, c),
               !.state  = IF c = " " THEN "ARG" ELSE "MNEMONIC"]
  ELSE IF st.state = "ARG" THEN
    IF c = "," THEN
      [st EXCEPT !.spaceQuota = 1,
                 !.output = IF ~isLast /\ ln[i + 1] # " "
                            THEN Append(st.output, " ")
                            ELSE Append(st.output, c)]
    ELSE IF c = " " THEN
      IF st.spaceQuota > 0
      THEN [st EXCEPT !.output = Append(st.output, c),
                      !.spaceQuota = st.spaceQuota - 1]
      ELSE st
    ELSE [st EXCEPT !.output = Append(st.output, c)]
  ELSE st

\* The loop body whose INIT state copies the leading spaces to the output
FormatLineIter_keepLeading(st, ln, i) ==
  LET c      == ln[i]
      isLast == (i = Len(ln))
  IN
  IF st.state = "INIT" THEN
    [st EXCEPT !.output = Append(st.output, c),
               !.state  = IF c # " " THEN "MNEMONIC" ELSE "INIT"]
  ELSE IF st.state = "MNEMONIC" THEN
    [st EXCEPT !.output = Append(st.output, c),
               !.state  = IF c = " " THEN "ARG" ELSE "MNEMONIC"]
  ELSE IF st.state = "ARG" THEN
    IF c = "," THEN
      [st EXCEPT !.spaceQuota = 1,
                 !.output = IF ~isLast /\ ln[i + 1] # " "
                            THEN st.output \o <<c, " ">>
                            ELSE Append(st.output, c)]
    ELSE IF c = " " THEN
      IF st.spaceQuota > 0
      THEN [st EXCEPT !.output = Append(st.output, c),
                      !.spaceQuota = st.spaceQuota - 1]
      ELSE st
    ELSE [st EXCEPT !.output = Append(st.output, c)]
  ELSE st

\* One iteration of the loop over the characters (0-based index i in the
\* source is position i here, 1-based).  st = [state, output, spaceQuota].
FormatLineIter(st, ln, i) ==
  LET c      == ln[i]
      isLast == (i = Len(ln))
  IN
  IF st.state = "INIT" THEN
    IF c # " "
    THEN [st EXCEPT !.output = Append(st.output, c), !.state = "MNEMONIC"]
    ELSE st
  ELSE IF st.state = "MNEMONIC" THEN
    [st EXCEPT !.output = Append(st.output, c),
               !.state  = IF c = " " THEN "ARG" ELSE "MNEMONIC"]
  ELSE IF st.state = "ARG" THEN
    IF c = "," THEN
      [st EXCEPT !.spaceQuota = 1,
                 !.output = IF ~isLast /\ ln[i + 1] # " "
                            THEN st.output \o <<c, " ">>
                            ELSE Append(st.output, c)]
    ELSE IF c = " " THEN
      IF st.spaceQuota > 0
      THEN [st EXCEPT !.output = Append(st.output, c),
                      !.spaceQuota = st.spaceQuota - 1]
      ELSE st
    ELSE [st EXCEPT !.output = Append(st.output, c)]
  ELSE st

RECURSIVE FormatLineLoop(_, _, _)
FormatLineLoop(st, ln, i) ==
  IF i > Len(ln) THEN st
  ELSE FormatLineLoop(FormatLineIter(st, ln, i), ln, i + 1)

\* The output without the removal of the trailing spaces
FormatLineTrim_none(output) == output

\* "Remove excessive trailing white spaces": cut after the last non-space
\* character; an output without any non-space character is left as it is.
FormatLineTrim(output) ==
  LET NonSpace == {k \in 1..Len(output) : output[k] # " "}
  IN IF NonSpace = {} THEN output
     ELSE SubSeq(output, 1, CHOOSE k \in NonSpace : \A j \in NonSpace : j <= k)

_asmReaderFormatLine(ln) ==
  IF ln = <<>> THEN <<>>
  ELSE upper(FormatLineTrim(
         FormatLineLoop([state |-> "INIT", output |-> <<>>, spaceQuota |-> 0],
                        ln, 1).output))

\* ========================================================================
\* cpu._asmReaderConsumeSpace
\* ========================================================================
\* The loop body that drops every space, leading or not
ConsumeSpaceIter_dropSpaces(st, c) ==
  IF c # " "
  THEN [st EXCEPT !.output = Append(st.output, c), !.isStillBlank = FALSE]
  ELSE st

\* One iteration of the loop.  st = [output, isStillBlank].
ConsumeSpaceIter(st, c) ==
  IF st.isStillBlank THEN
    IF c # " "
    THEN [st EXCEPT !.output = Append(st.output, c), !.isStillBlank = FALSE]
    ELSE st
  ELSE [st EXCEPT !.output = Append(st.output, c)]

RECURSIVE ConsumeSpaceLoop(_, _, _)
ConsumeSpaceLoop(st, ln, i) ==
  IF i > Len(ln) THEN st
  ELSE ConsumeSpaceLoop(ConsumeSpaceIter(st, ln[i]), ln, i + 1)

_asmReaderConsumeSpace(ln) ==
  IF ln = <<>> THEN ln
  ELSE IF ln[1] # " " THEN ln
  ELSE ConsumeSpaceLoop([output |-> <<>>, isStillBlank |-> TRUE], ln, 1).output

\* ========================================================================
\* cpu
\* ========================================================================
Return(self) == [self |-> self, exc |-> "none"]
Raise(self, e) == [self |-> self, exc |-> e]

\* cpu.__init__
cpu__init__ ==
  [ PC          |-> 0,
    iMem        |-> [a \in 0..(INSTRUCTION_MEM_SIZE - 1) |-> "NOP"],
    dMem        |-> [a \in 0..(DATA_MEM_SIZE - 1) |-> 0],
    resetAddr   |-> 0,
    itAddr      |-> 1000,
    W           |-> [r \in 0..(N_WORK_REGS - 1) |-> 0],
    statReg     |-> 0,
    isTrapped   |-> FALSE,
    stack       |-> <<>>,
    nCyclesLost |-> 0 ]

\* cpu.__trap_pcOutOfRange
trap_pcOutOfRange(self) == Return([self EXCEPT !.isTrapped = TRUE])

\* _setPC that traps on a request for the last address of the memory
_setPC_trapLastAddr(self, newPC) ==
  IF ~self.isTrapped THEN
    IF (newPC < 0) \/ (newPC >= DATA_MEM_SIZE - 1)
    THEN trap_pcOutOfRange(self)
    ELSE Return([self EXCEPT !.PC = newPC])
  ELSE Return(self)

\* _setPC without the test of the trap flag
_setPC_noTrapGuard(self, newPC) ==
  IF (newPC < 0) \/ (newPC >= DATA_MEM_SIZE)
  THEN trap_pcOutOfRange(self)
  ELSE Return([self EXCEPT !.PC = newPC])

\* _setPC whose upper limit is off by one
_setPC_offByOne(self, newPC) ==
  IF ~self.isTrapped THEN
    IF (newPC < 0) \/ (newPC > DATA_MEM_SIZE)
    THEN trap_pcOutOfRange(self)
    ELSE Return([self EXCEPT !.PC = newPC])
  ELSE Return(self)

\* _setPC without the lower limit
_setPC_noLowerLimit(self, newPC) ==
  IF ~self.isTrapped THEN
    IF newPC >= DATA_MEM_SIZE
    THEN trap_pcOutOfRange(self)
    ELSE Return([self EXCEPT !.PC = newPC])
  ELSE Return(self)

\* cpu._setPC
_setPC(self, newPC) ==
  IF ~self.isTrapped THEN
    IF (newPC < 0) \/ (newPC >= DATA_MEM_SIZE)
    THEN trap_pcOutOfRange(self)
    ELSE Return([self EXCEPT !.PC = newPC])
  ELSE Return(self)

\* cpu._pcJump
_pcJump(self, delta) == _setPC(self, self.PC + delta)

\* reset that restores every attribute of cpu.__init__ but the memories
reset_reinit(self) ==
  Return([cpu__init__ EXCEPT !.iMem = self.iMem, !.dMem = self.dMem])

\* cpu.reset: the first statement reads self.startAddr, an attribute that
\* cpu.__init__ does not create; the read raises AttributeError and the
\* statements after it are not executed.
reset(self) ==
  IF "startAddr" \notin DOMAIN self
  THEN Raise(self, "AttributeError")
  ELSE Return([self EXCEPT !.PC        = self.startAddr,
                           !.W         = [r \in 0..(N_WORK_REGS - 1) |-> 0],
                           !.stack     = <<>>,
                           !.isTrapped = FALSE])

\* instruction.fromStr is declared fromStr(self, text): two positional
\* parameters.
fromStr_nParams == 2

\* cpu.step: calls instruction.fromStr("NOP") with one argument, which raises
\* TypeError; the statement after it is 'pass'.
step(self) ==
  IF fromStr_nParams # 1
  THEN Raise(self, "TypeError")
  ELSE Return(self)

\* ========================================================================
\* Instruction: clock cycles of an instruction text (Instruction.__init__
\* sets cycles = 1, the __init_XXX function of the mnemonic overrides it)
\* ========================================================================
cycles(txt) ==
  CASE txt = "NOP"    -> 1
    [] txt = "JZ 0"   -> 2
    [] OTHER          -> 1

\* Text of a MEET instruction (registry entry "MEET")
IsMeet(txt) == txt = "MEET 1"

\* ========================================================================
\* instruction.py: helpers
\* ========================================================================
\* Python values returned by the functions of instruction.py
PyNone == [kind |-> "None"]
PyBool(b, at) == [kind |-> "bool", val |-> b, at |-> at]   \* 'at': line of the return statement
PyTuple(items) == [kind |-> "tuple", items |-> items]
PyObject(o) == [kind |-> "Instruction", obj |-> o]

Digits == {"0", "1", "2", "3", "4", "5", "6", "7", "8", "9"}

\* _asmReaderIsAlpha (module-level function)
_asmReaderIsAlpha(c) ==
  \E k \in 1..Len(LowerCase) : LowerCase[k] = c \/ UpperCase[k] = c

\* _asmReaderIsDigit (module-level function)
_asmReaderIsDigit(c) == c \in Digits

\* Names bound in the body of class Instruction ('__init_XXX' stands for the
\* mangled '_Instruction__init_XXX')
InstructionClassAttrs ==
  { "__init__", "_decode", "_asmReaderParse", "_asmReaderFormatLine",
    "_asmReaderHasLabel", "call",
    "__init_NOP", "__instr_NOP", "__init_JZ", "__instr_JZ",
    "__init_JE", "__instr_JE", "__init_REPEAT", "__instr_REPEAT",
    "__init_MOV", "__instr_MOV" }

\* ========================================================================
\* Instruction._asmReaderHasLabel
\* ========================================================================
\* One iteration of the loop; 'state' is never given the value of 'stateNext'
\* in this function, so the FSM stays in INIT.  st = [hasLabel, exc].
HasLabelIter(st, c) ==
  IF st.exc # "none" THEN st
  ELSE IF "_asmReaderIsDigit" \notin InstructionClassAttrs
       THEN [st EXCEPT !.exc = "AttributeError"]
  ELSE IF _asmReaderIsDigit(c) THEN st
  ELSE IF (c = "x") \/ (c = "X") THEN st
  ELSE IF c = " " THEN st
  ELSE IF c = ":" THEN st
  ELSE [st EXCEPT !.hasLabel = FALSE]

RECURSIVE HasLabelLoop(_, _, _)
HasLabelLoop(st, ln, i) ==
  IF i > Len(ln) THEN st
  ELSE HasLabelLoop(HasLabelIter(st, ln[i]), ln, i + 1)

\* The statement 'if (line == "") : False' returns nothing: the empty line
\* goes through the (empty) loop and returns the initial hasLabel = True.
_asmReaderHasLabel(ln) ==
  LET st == HasLabelLoop([hasLabel |-> TRUE, exc |-> "none"], ln, 1)
  IN IF st.exc # "none" THEN Raise(PyNone, st.exc)
     ELSE Return(PyBool(st.hasLabel, 334))

\* ========================================================================
\* Instruction._asmReaderParse
\* ========================================================================
\* Members of the enumeration fsmState of _asmReaderParse
ParseFsmStates ==
  {"INIT", "ADDRESS", "LABEL", "MNEMONIC", "ARG_ALPHANUM", "ARG_BRACKET", "COMMENT"}

\* One iteration of the loop.  st = [state, address, label, mnemonic, args,
\* comment, acc, firstSpace, exc].
ParseIter(st, c) ==
  IF st.exc # "none" THEN st
  ELSE IF st.state = "INIT" THEN
    IF c = " " THEN st
    ELSE IF c = ";" THEN [st EXCEPT !.state = "COMMENT"]
    ELSE IF "_asmReaderIsDigit" \notin InstructionClassAttrs
         THEN [st EXCEPT !.exc = "AttributeError"]
    ELSE IF _asmReaderIsDigit(c)
         THEN [st EXCEPT !.address = Append(st.address, c), !.state = "ADDRESS"]
    ELSE IF "_asmReaderIsAlpha" \notin InstructionClassAttrs
         THEN [st EXCEPT !.exc = "AttributeError"]
    ELSE [st EXCEPT !.mnemonic = Append(st.mnemonic, c), !.state = "MNEMONIC"]
  ELSE IF st.state = "ADDRESS" THEN st
  ELSE IF st.state = "MNEMONIC" THEN
    IF c = " " THEN
      IF "ARG" \notin ParseFsmStates
      THEN [st EXCEPT !.firstSpace = TRUE, !.exc = "AttributeError"]
      ELSE [st EXCEPT !.firstSpace = TRUE, !.state = "ARG"]
    ELSE [st EXCEPT !.mnemonic = Append(st.mnemonic, c)]
  ELSE IF "ARG" \notin ParseFsmStates          \* elif (state == fsmState.ARG)
       THEN [st EXCEPT !.exc = "AttributeError"]
  ELSE IF st.state = "ARG" THEN
    IF st.firstSpace THEN
      IF c # " " THEN [st EXCEPT !.firstSpace = FALSE, !.acc = Append(st.acc, c)]
      ELSE st
    ELSE
      IF c # " " THEN [st EXCEPT !.acc = Append(st.acc, c)]
      ELSE [st EXCEPT !.args = Append(st.args, st.acc), !.acc = <<>>]
  ELSE IF st.state = "COMMENT" THEN [st EXCEPT !.comment = Append(st.comment, c)]
  ELSE st

RECURSIVE ParseLoop(_, _, _)
ParseLoop(st, ln, i) ==
  IF i > Len(ln) THEN st
  ELSE ParseLoop(ParseIter(st, ln[i]), ln, i + 1)

\* The empty line returns the 4-tuple ("", "", [], ""); any other line first
\* calls Instruction._asmReaderHasLabel, then runs the FSM and returns the
\* 5-tuple (address, label, mnemonic, args, comment).
_asmReaderParse(ln) ==
  IF ln = <<>> THEN Return(PyTuple(<< <<>>, <<>>, <<>>, <<>> >>))
  ELSE
    LET hasLabel == _asmReaderHasLabel(ln)
        st == ParseLoop([state |-> "INIT", address |-> <<>>, label |-> <<>>,
                         mnemonic |-> <<>>, args |-> <<>>, comment |-> <<>>,
                         acc |-> <<>>, firstSpace |-> FALSE, exc |-> "none"],
                        ln, 1)
    IN IF hasLabel.exc # "none" THEN Raise(PyNone, hasLabel.exc)
       ELSE IF st.exc # "none" THEN Raise(PyNone, st.exc)
       ELSE Return(PyTuple(<<st.address, st.label, st.mnemonic, st.args, st.comment>>))

\* ========================================================================
\* _asmReaderSyntaxCheck (module-level function)
\* ========================================================================
\* First loop: the characters that pass the character check
SyntaxCheckCharOK(c) ==
  \/ _asmReaderIsAlpha(c)
  \/ _asmReaderIsDigit(c)
  \/ c = " "
  \/ c \in {":", ",", ".", "(", ")", "[", "]", "_"}

\* Second loop, one iteration.  st = [state, returned].
SyntaxCheckIter(st, c) ==
  IF st.returned THEN st
  ELSE IF st.state = "INIT" THEN
    IF c = "0" THEN [st EXCEPT !.state = "ADDR_HEX"]
    ELSE IF _asmReaderIsDigit(c) THEN [st EXCEPT !.state = "ADDR"]
    ELSE IF c = "_" THEN [st EXCEPT !.state = "LABEL"]
    ELSE IF _asmReaderIsAlpha(c) THEN [st EXCEPT !.state = "LABEL_OR_MNEM"]
    ELSE IF c = " " THEN st
    ELSE [st EXCEPT !.returned = TRUE]
  ELSE IF st.state = "LABEL" THEN
    IF _asmReaderIsAlpha(c) THEN st
    ELSE IF _asmReaderIsDigit(c) THEN st
    ELSE IF c = " " THEN st
    ELSE IF c = ":" THEN [st EXCEPT !.state = "MNEMONIC"]
    ELSE st
  ELSE st

RECURSIVE SyntaxCheckLoop(_, _, _)
SyntaxCheckLoop(st, ln, i) ==
  IF i > Len(ln) THEN st
  ELSE SyntaxCheckLoop(SyntaxCheckIter(st, ln[i]), ln, i + 1)

\* The function has no return statement after its second loop: a line that
\* is not rejected returns None.
_asmReaderSyntaxCheck(ln) ==
  IF ln = <<>> THEN Return(PyBool(FALSE, 599))
  ELSE IF \E k \in 1..Len(ln) : ~SyntaxCheckCharOK(ln[k]) THEN Return(PyBool(FALSE, 611))
  ELSE IF SyntaxCheckLoop([state |-> "INIT", returned |-> FALSE], ln, 1).returned
       THEN Return(PyBool(FALSE, 639))
  ELSE Return(PyNone)

\* ========================================================================
\* Instruction: registry, initialisers, constructor, decoder, factory
\* ========================================================================
\* Attributes set by Instruction.__init__ before the registry is built
InstructionDefaults ==
  [ cycles |-> 1, mnemonic |-> "", handler |-> "None", addr |-> 0,
    nCores |-> 1, cpu |-> <<>>, cpuID |-> 0, nArgs |-> 0, args |-> <<>>,
    size |-> 32, _cyclesRemaining |-> 1 ]

\* Instruction._instructionSet: mnemonic -> name of the initialiser
RegistryKeys ==
  {"MOV", "JZ", "JE", "REPEAT", "ADD", "SUB", "SCTX", "RCTX", "LOC", "MEET", "NOP", "RESET"}

_instructionSet ==
  [m \in RegistryKeys |->
     CASE m = "MOV"    -> "__init_MOV"
       [] m = "JZ"     -> "__init_JZ"
       [] m = "JE"     -> "__init_JE"
       [] m = "REPEAT" -> "__init_REPEAT"
       [] m = "ADD"    -> "__init_ADD"
       [] m = "SUB"    -> "__init_SUB"
       [] m = "SCTX"   -> "__init_SCTX"
       [] m = "RCTX"   -> "__init_RCTX"
       [] m = "LOC"    -> "__init_LOC"
       [] m = "MEET"   -> "__init_MEET"
       [] m = "NOP"    -> "__init_NOP"
       [] m = "RESET"  -> "__init_RESET"]

\* Instruction.__init_NOP
init_NOP(self) ==
  [self EXCEPT !.mnemonic = "MOV", !.handler = "__instr_NOP", !.cycles = 1, !.nArgs = 0]

\* Instruction.__init_JZ
init_JZ(self) ==
  [self EXCEPT !.mnemonic = "JZ", !.handler = "__instr_JZ", !.cycles = 2, !.nArgs = 0]

\* Instruction.__init_JE
init_JE(self) ==
  [self EXCEPT !.mnemonic = "JE", !.handler = "__instr_JE", !.cycles = 2, !.nArgs = 0]

\* Instruction.__init_REPEAT
init_REPEAT(self) ==
  [self EXCEPT !.mnemonic = "REPEAT", !.handler = "__instr_REPEAT", !.cycles = 1, !.nArgs = 0]

\* Instruction.__init_MOV: the same function processes all variants
init_MOV(self) ==
  [self EXCEPT !.mnemonic = "MOV", !.handler = "__instr_MOV", !.cycles = 2, !.nArgs = 0]

\* The initialiser the registry names for mnemonic m is run on the object
registryInit(m, self) ==
  IF _instructionSet[m] \notin InstructionClassAttrs
  THEN Raise(PyNone, "AttributeError")
  ELSE Return(PyObject(
         CASE m = "NOP"    -> init_NOP(self)
           [] m = "JZ"     -> init_JZ(self)
           [] m = "JE"     -> init_JE(self)
           [] m = "REPEAT" -> init_REPEAT(self)
           [] m = "MOV"    -> init_MOV(self)))

\* Characters accepted by the character check of Instruction._decode
DecodeCharOK(c) ==
  \/ _asmReaderIsAlpha(c)
  \/ _asmReaderIsDigit(c)
  \/ c \in {"[", "]", "(", ")", "_", ","}

\* Instruction._decode: the loop reads self.input, an attribute that
\* Instruction.__init__ does not create; the helper self._decodeIsAlpha is
\* not defined; the local 'line' is read before it is assigned.
_decode(self, txt) ==
  IF "input" \notin DOMAIN self THEN Raise(PyNone, "AttributeError")
  ELSE IF self.input # <<>> /\ "_decodeIsAlpha" \notin InstructionClassAttrs
       THEN Raise(PyNone, "AttributeError")
  ELSE IF \E k \in 1..Len(self.input) : ~DecodeCharOK(self.input[k])
       THEN Return(PyBool(FALSE, 159))
  ELSE Raise(PyNone, "UnboundLocalError")

\* Instruction.__init__: building the dictionary _instructionSet reads every
\* self.__init_XXX; then the text is decoded.
Instruction__init__(txt) ==
  IF \E m \in RegistryKeys : _instructionSet[m] \notin InstructionClassAttrs
  THEN Raise(PyNone, "AttributeError")
  ELSE LET d == _decode(InstructionDefaults, txt)
       IN IF d.exc # "none" THEN Raise(PyNone, d.exc)
          ELSE Return(PyObject(InstructionDefaults))

\* fromStr (module-level function), called with its two arguments
fromStr(txt) ==
  LET I == Instruction__init__(txt)
  IN IF I.exc # "none" THEN Raise(PyNone, I.exc)
     ELSE IF I.self.obj.mnemonic = "" THEN Return(PyNone)
     ELSE Instruction__init__(txt)

\* ========================================================================
\* cpu.loadFromFile
\* ========================================================================
\* Characters removed by str.strip()
Whitespace == {" ", "\n", "\t", "\r"}

\* str.strip()
strip(s) ==
  LET Kept == {k \in 1..Len(s) : s[k] \notin Whitespace}
  IN IF Kept = {} THEN <<>>
     ELSE SubSeq(s, CHOOSE k \in Kept : \A j \in Kept : k <= j,
                    CHOOSE k \in Kept : \A j \in Kept : j <= k)

\* instruction.fromStr(x): the call with one positional argument, as written in
\* cpu.loadFromFile and cpu.step
fromStr_oneArg(txt) ==
  IF fromStr_nParams # 1 THEN Raise(PyNone, "TypeError") ELSE fromStr(txt)

\* The loop over the lines of the file: each line is normalised, stripped and
\* handed to instruction.fromStr; the object returned is dropped and neither
\* 'addr' nor self.iMem is written.  st = [addr, exc].
RECURSIVE LoadLoop(_, _, _)
LoadLoop(st, lines, k) ==
  IF k > Len(lines) \/ st.exc # "none" THEN st
  ELSE LoadLoop([st EXCEPT !.exc = fromStr_oneArg(strip(_asmReaderFormatLine(lines[k]))).exc],
                lines, k + 1)

\* cpu.loadFromFile: a file is [exists, lines]; each line ends with its
\* newline character.  FileNotFoundError is the only exception caught.
loadFromFile(self, asmFile) ==
  IF ~asmFile.exists THEN Return(self)
  ELSE LET st == LoadLoop([addr |-> self.resetAddr, exc |-> "none"], asmFile.lines, 1)
       IN IF st.exc # "none" THEN Raise(self, st.exc) ELSE Return(self)

\* ========================================================================
\* Multi-core context: the demo program and the lock-step driver
\* ========================================================================
\* Example code for the instruction memory
DemoProgram == <<"MOV 1,[0]", "BSET W0,1", "NOP", "MEET 1">>

\* A core whose instruction memory holds the demo program from address 0
cpuWithProgram ==
  [cpu__init__ EXCEPT !.iMem =
     [a \in 0..(INSTRUCTION_MEM_SIZE - 1) |->
        IF a < Len(DemoProgram) THEN DemoProgram[a + 1] ELSE "NOP"]]

\* One global clock tick: step() on every core, in ascending core id.
\* step() of one core reads and writes that core only.
tick(cores) == [i \in DOMAIN cores |-> step(cores[i]).self]

\* ========================================================================
\* Initial states
\* ========================================================================
\* No call made on cpu._asmReaderConsumeSpace
NotConsumed == [done |-> FALSE, out |-> <<>>]

InitFmtVars == /\ line = <<>>
               /\ results = <<>>
               /\ consumed = NotConsumed

InitCoreVars == /\ cpu0 = cpu__init__
                /\ lastOp = "none"
                /\ arg = 0
                /\ exc = "none"
                /\ nCalls = 0
                /\ stepsAtPC = 0
                /\ onlySteps = TRUE

InitSyncVars == /\ cpu = [i \in 1..NCores |-> cpuWithProgram]
                /\ arrived = [i \in 1..NCores |-> FALSE]
                /\ nTicks = 0

\* No call made on instruction.py
NoCall == [fn |-> "none", m |-> "", mem |-> FALSE]

InitInstrVars == /\ text = <<>>
                 /\ call = NoCall
                 /\ ret = Return(PyNone)

\* The state after construction of the core
Init == InitFmtVars /\ InitCoreVars /\ InitSyncVars /\ InitInstrVars

\* Prior values of the attributes that no method of the core writes
\* (statReg, W, stack, nCyclesLost) and of PC / isTrapped
PriorPCs == {0, 5, INSTRUCTION_MEM_SIZE - 1}
PriorW == {[r \in 0..(N_WORK_REGS - 1) |-> IF r = 0 THEN v ELSE 0] : v \in {0, MaxStat}}
PriorStacks == {<<>>, <<1>>}

InitPrior ==
  /\ InitFmtVars /\ InitSyncVars /\ InitInstrVars
  /\ lastOp = "none" /\ arg = 0 /\ exc = "none" /\ nCalls = 0 /\ stepsAtPC = 0
  /\ onlySteps = TRUE
  /\ \E pc \in PriorPCs, w \in PriorW, st \in 0..MaxStat, tr \in BOOLEAN,
        sk \in PriorStacks, lost \in 0..MaxStat :
        cpu0 = [cpu__init__ EXCEPT !.PC = pc, !.W = w, !.statReg = st,
                                   !.isTrapped = tr, !.stack = sk,
                                   !.nCyclesLost = lost]

InitFmt == /\ line \in Strings
           /\ results = <<>>
           /\ consumed = NotConsumed
           /\ InitCoreVars /\ InitSyncVars /\ InitInstrVars

\* Characters the lines handed to instruction.py are built from: a sample of
\* the allowed alphabet and one character outside it
TextAlphabet == {" ", ",", ";", ":", "1", "a", "#"}

RECURSIVE TextsOfLen(_)
TextsOfLen(n) ==
  IF n = 0 THEN {<<>>}
  ELSE {Append(t, c) : t \in TextsOfLen(n - 1), c \in TextAlphabet}

\* The registry mnemonics as lines: the bare mnemonic
MnemonicChars ==
  [m \in RegistryKeys |->
     CASE m = "MOV"    -> <<"M", "O", "V">>
       [] m = "JZ"     -> <<"J", "Z">>
       [] m = "JE"     -> <<"J", "E">>
       [] m = "REPEAT" -> <<"R", "E", "P", "E", "A", "T">>
       [] m = "ADD"    -> <<"A", "D", "D">>
       [] m = "SUB"    -> <<"S", "U", "B">>
       [] m = "SCTX"   -> <<"S", "C", "T", "X">>
       [] m = "RCTX"   -> <<"R", "C", "T", "X">>
       [] m = "LOC"    -> <<"L", "O", "C">>
       [] m = "MEET"   -> <<"M", "E", "E", "T">>
       [] m = "NOP"    -> <<"N", "O", "P">>
       [] m = "RESET"  -> <<"R", "E", "S", "E", "T">>]

\* The lines of at most n characters and the bare registry mnemonics
Texts(n) == UNION {TextsOfLen(k) : k \in 0..n} \cup {MnemonicChars[m] : m \in RegistryKeys}

InitInstr == /\ text \in Texts(MaxText)
             /\ call = NoCall
             /\ ret = Return(PyNone)
             /\ InitFmtVars /\ InitCoreVars /\ InitSyncVars

\* ========================================================================
\* Actions
\* ========================================================================
FmtVars == <<line, results, consumed>>
CoreVars == <<cpu0, lastOp, arg, exc, nCalls, stepsAtPC, onlySteps>>
SyncVars == <<cpu, arrived, nTicks>>
InstrVars == <<text, call, ret>>

\* Arguments handed to _setPC and _pcJump
NewPCs == {-1, 0, 1, INSTRUCTION_MEM_SIZE - 1, INSTRUCTION_MEM_SIZE}
Deltas == {-1, 1, 2}

\* Assembly files handed to loadFromFile (arg is the index in this table):
\* a path without a file, a file of one line, a file of two lines whose
\* first line has a character outside the allowed alphabet
AsmFiles ==
  << [exists |-> FALSE, lines |-> <<>>],
     [exists |-> TRUE,  lines |-> << <<"j", "z", " ", "0", "\n">> >>],
     [exists |-> TRUE,  lines |-> << <<"#", "\n">>, <<"j", "z", " ", "0", "\n">> >>] >>

\* The outcome r of a method call on the core is committed
Call(name, a, r) ==
  /\ nCalls < MaxCalls
  /\ cpu0' = r.self
  /\ exc' = r.exc
  /\ lastOp' = name
  /\ arg' = a
  /\ nCalls' = nCalls + 1
  /\ stepsAtPC' = IF name = "step" /\ r.self.PC = cpu0.PC THEN stepsAtPC + 1 ELSE 0
  /\ onlySteps' = (onlySteps /\ name = "step")
  /\ UNCHANGED <<FmtVars, SyncVars, InstrVars>>

Step == Call("step", 0, step(cpu0))

SetPC == \E n \in NewPCs : Call("_setPC", n, _setPC(cpu0, n))

PcJump == \E d \in Deltas : Call("_pcJump", d, _pcJump(cpu0, d))

Reset == Call("reset", 0, reset(cpu0))

LoadFromFile ==
  \E f \in 1..Len(AsmFiles) : Call("loadFromFile", f, loadFromFile(cpu0, AsmFiles[f]))

Next == Step \/ SetPC \/ PcJump \/ Reset \/ LoadFromFile

Spec == Init /\ [][Next]_vars

SpecPrior == InitPrior /\ [][Next]_vars

\* Example 3: the instruction memory holds NOP, NOP, JZ 0 from address 0 and
\* PC = 0; the status register is drawn (0: no flag set)
Example3Program == <<"NOP", "NOP", "JZ 0">>

InitEx3 ==
  /\ InitFmtVars /\ InitSyncVars /\ InitInstrVars
  /\ lastOp = "none" /\ arg = 0 /\ exc = "none" /\ nCalls = 0 /\ stepsAtPC = 0
  /\ onlySteps = TRUE
  /\ \E st \in 0..MaxStat :
        cpu0 = [cpu__init__ EXCEPT
                  !.statReg = st,
                  !.iMem = [a \in 0..(INSTRUCTION_MEM_SIZE - 1) |->
                              IF a < Len(Example3Program)
                              THEN Example3Program[a + 1] ELSE "NOP"]]

SpecEx3 == InitEx3 /\ [][Next]_vars

\* The line normaliser applied to the line, then to its own output
FormatLine ==
  /\ Len(results) < 2
  /\ results' = Append(results,
                   _asmReaderFormatLine(IF results = <<>> THEN line
                                        ELSE results[Len(results)]))
  /\ UNCHANGED <<line, consumed, CoreVars, SyncVars, InstrVars>>

\* The leading spaces of the line are consumed
ConsumeSpace ==
  /\ ~consumed.done
  /\ consumed' = [done |-> TRUE, out |-> _asmReaderConsumeSpace(line)]
  /\ UNCHANGED <<line, results, CoreVars, SyncVars, InstrVars>>

NextFmt == FormatLine \/ ConsumeSpace

SpecFmt == InitFmt /\ [][NextFmt]_vars

\* Lock-step driver: one tick steps every core
Tick ==
  /\ nTicks < MaxTicks
  /\ cpu' = tick(cpu)
  /\ arrived' = [i \in 1..NCores |->
                   arrived[i] \/ (~cpu[i].isTrapped /\ IsMeet(cpu[i].iMem[cpu[i].PC]))]
  /\ nTicks' = nTicks + 1
  /\ UNCHANGED <<FmtVars, CoreVars, InstrVars>>

\* A core is placed on an address of the program
CoreSetPC ==
  \E i \in 1..NCores, n \in 0..Len(DemoProgram) :
    /\ cpu' = [cpu EXCEPT ![i] = _setPC(cpu[i], n).self]
    /\ arrived' = [arrived EXCEPT ![i] = FALSE]
    /\ UNCHANGED <<nTicks, FmtVars, CoreVars, InstrVars>>

NextSync == Tick \/ CoreSetPC

SpecSync == Init /\ [][NextSync]_vars

\* One call is made on instruction.py with the line; r is its outcome
InstrCall(fn, m, mem, r) ==
  /\ call = NoCall
  /\ call' = [fn |-> fn, m |-> m, mem |-> mem]
  /\ ret' = r
  /\ UNCHANGED <<text, FmtVars, CoreVars, SyncVars>>

Parse == InstrCall("_asmReaderParse", "", FALSE, _asmReaderParse(text))

HasLabel == InstrCall("_asmReaderHasLabel", "", FALSE, _asmReaderHasLabel(text))

SyntaxCheck == InstrCall("_asmReaderSyntaxCheck", "", FALSE, _asmReaderSyntaxCheck(text))

Decode == InstrCall("_decode", "", FALSE, _decode(InstructionDefaults, text))

FromStr == InstrCall("fromStr", "", FALSE, fromStr(text))

\* The registry initialiser of the mnemonic of the line is run on an object
\* that has the attributes of Instruction.__init__; mem tells whether the
\* instruction has a memory operand
RunInit ==
  \E m \in RegistryKeys, mem \in BOOLEAN :
    /\ text = MnemonicChars[m]
    /\ InstrCall("registryInit", m, mem, registryInit(m, InstructionDefaults))

NextInstr == Parse \/ HasLabel \/ SyntaxCheck \/ Decode \/ FromStr \/ RunInit

SpecInstr == InitInstr /\ [][NextInstr]_vars

\* ========================================================================
\* PROPERTIES
\* ========================================================================
ValidPCs == 0..(INSTRUCTION_MEM_SIZE - 1)
ZeroW == [r \in 0..(N_WORK_REGS - 1) |-> 0]

\* The architectural state of a core
ArchState(c) == <<c.PC, c.W, c.statReg, c.stack, c.isTrapped, c.nCyclesLost>>

\* A method call on the single core has just been made
Called(name) == lastOp' = name /\ nCalls' = nCalls + 1

\* C1: normalising an already normalised line gives the same line:
\* _asmReaderFormatLine(_asmReaderFormatLine(s)) = _asmReaderFormatLine(s).
C1_Idempotence ==
  Len(results) = 2 => results[2] = results[1]

\* C2: while the core is trapped, step(), _setPC() and _pcJump() leave PC, W,
\* statReg, stack, isTrapped and nCyclesLost unchanged, and isTrapped goes
\* back to false through reset() only.
C2_TrapIdempotence ==
  [][ /\ (cpu0.isTrapped /\ (Called("step") \/ Called("_setPC") \/ Called("_pcJump")))
           => ArchState(cpu0') = ArchState(cpu0)
      /\ (cpu0.isTrapped /\ ~cpu0'.isTrapped) => Called("reset") ]_vars

\* C2 witness: a trapped core that has been stepped twice since the trap
C2_Witness ==
  cpu0.isTrapped /\ lastOp = "step" /\ stepsAtPC >= 2

\* Outcome of a request to move an untrapped core to address n
SetPCOutcome(old, new, n) ==
  IF n \in ValidPCs
  THEN new.PC = n /\ ~new.isTrapped
  ELSE new.isTrapped /\ new.PC = old.PC

\* C3: on an untrapped core, _setPC(newPC) with newPC outside
\* [0, INSTRUCTION_MEM_SIZE) sets isTrapped and keeps PC, with newPC inside it
\* sets PC to newPC and leaves isTrapped false; _pcJump(delta) does what
\* _setPC(PC + delta) does.
C3_SetPC ==
  [][ ~cpu0.isTrapped =>
        /\ Called("_setPC")  => SetPCOutcome(cpu0, cpu0', arg')
        /\ Called("_pcJump") => SetPCOutcome(cpu0, cpu0', cpu0.PC + arg') ]_vars

\* C3 witness: a relative jump from the last address has trapped the core
C3_Witness ==
  /\ lastOp = "_pcJump" /\ arg = 1
  /\ cpu0.isTrapped /\ cpu0.PC = INSTRUCTION_MEM_SIZE - 1

\* C4: PC lies in [0, INSTRUCTION_MEM_SIZE) in every state reached from
\* construction by step(), _setPC(), _pcJump() and reset() calls.
C4_PCInRange ==
  cpu0.PC \in ValidPCs

\* C4 witness: a request for the first address beyond the instruction memory
\* has been refused while PC was on the last address
C4_Witness ==
  /\ lastOp = "_setPC" /\ arg = INSTRUCTION_MEM_SIZE
  /\ cpu0.PC = INSTRUCTION_MEM_SIZE - 1 /\ cpu0.isTrapped

\* C5: on an untrapped core standing on a non-jump instruction of n cycles,
\* each of the first n-1 step() calls leaves PC unchanged and the n-th one
\* increases PC by 1.
C5_PCMonotonicity ==
  [][ (Called("step") /\ ~cpu0.isTrapped /\ cpu0.PC + 1 \in ValidPCs) =>
        IF stepsAtPC + 1 < cycles(cpu0.iMem[cpu0.PC])
        THEN cpu0'.PC = cpu0.PC
        ELSE cpu0'.PC = cpu0.PC + 1 ]_vars

\* Every core stands, untrapped, on a MEET instruction
AllOnMeet == \A i \in 1..NCores : ~cpu[i].isTrapped /\ IsMeet(cpu[i].iMem[cpu[i].PC])

\* Every core has arrived at the barrier it stands on
AllArrived == AllOnMeet /\ \A i \in 1..NCores : arrived[i]

\* C7: with NCores cores all issuing MEET, a tick moves no core past its MEET
\* before all of them have arrived, and the tick that follows the last
\* arrival advances the PC of every core by 1.
C7_BarrierAtomicity ==
  [][ (AllOnMeet /\ nTicks' = nTicks + 1) =>
        IF AllArrived
        THEN \A i \in 1..NCores : cpu'[i].PC = cpu[i].PC + 1
        ELSE \A i \in 1..NCores : cpu'[i].PC = cpu[i].PC ]_vars

\* C8: reset() completes from any state, trapped or not, and leaves
\* PC = resetAddr, the 16 work registers at 0, the stack empty and isTrapped
\* false.
C8_ResetPostcondition ==
  lastOp = "reset" =>
    /\ exc = "none"
    /\ cpu0.PC = cpu0.resetAddr
    /\ cpu0.W = ZeroW
    /\ cpu0.stack = <<>>
    /\ ~cpu0.isTrapped

\* C9: after reset(), statReg is 0 whatever its value before the call.
C9_ResetClearsStatReg ==
  lastOp = "reset" => cpu0.statReg = 0

\* C10: reset() leaves nCyclesLost as it was before the call, for every
\* prior value.
C10_ResetKeepsCyclesLost ==
  [][ Called("reset") => cpu0'.nCyclesLost = cpu0.nCyclesLost ]_vars

\* C10 witness: reset() has been called on a core that had lost cycles
C10_Witness ==
  lastOp = "reset" /\ cpu0.nCyclesLost > 0

\* ------------------------------------------------------------------------
\* Line normaliser: shape of the output
\* ------------------------------------------------------------------------
Spaces(o) == {k \in 1..Len(o) : o[k] = " "}
AllSpaces(o) == \A k \in 1..Len(o) : o[k] = " "
IsLowerCase(c) == \E k \in 1..Len(LowerCase) : LowerCase[k] = c

\* The space that ends the mnemonic: the first space of a normalised line
MnemonicSpace(o) == CHOOSE k \in Spaces(o) : \A j \in Spaces(o) : k <= j

\* Every space of o separates the mnemonic from the first argument or stands
\* immediately after a comma
SpacesOnlyAsSeparators(o) ==
  \A k \in Spaces(o) :
    k > 1 /\ k < Len(o) /\ (k = MnemonicSpace(o) \/ o[k - 1] = ",")

\* C11: the output of _asmReaderFormatLine has a space in two kinds of place
\* only, between the mnemonic and the first argument and immediately after a
\* comma; every other space of the input is removed.
C11_SpacesOnlyAsSeparators ==
  Len(results) >= 1 => SpacesOnlyAsSeparators(results[1])

C13_BlankToEmpty ==
  (Len(results) >= 1 /\ AllSpaces(line)) => results[1] = <<>>

\* C13 witness: a line of several spaces has been normalised
C13_Witness ==
  Len(results) = 1 /\ Len(line) >= 2 /\ AllSpaces(line)

\* C14: the output of _asmReaderFormatLine neither begins nor ends with a
\* space and never has two consecutive spaces.
C14_NoEdgeOrDoubleSpace ==
  \A n \in 1..Len(results) :
    LET o == results[n] IN
      /\ o # <<>> => (o[1] # " " /\ o[Len(o)] # " ")
      /\ \A k \in 1..(Len(o) - 1) : ~(o[k] = " " /\ o[k + 1] = " ")

\* C14 witness: a line with a leading space, a trailing space and two spaces
\* in a row between two words has been normalised
C14_Witness ==
  /\ Len(results) = 1 /\ Len(line) >= 6
  /\ line[1] = " " /\ line[Len(line)] = " "
  /\ \E k \in 3..(Len(line) - 3) :
        line[k - 1] # " " /\ line[k] = " " /\ line[k + 1] = " " /\ line[k + 2] # " "

\* ------------------------------------------------------------------------
\* instruction.py: expected values
\* ------------------------------------------------------------------------
\* Cycle count of the instruction table; MOV costs 1 cycle between registers
\* and 2 with a memory operand
TableCycles(m, mem) ==
  CASE m = "NOP"             -> 1
    [] m \in {"JZ", "JE"}    -> 2
    [] m = "MOV"             -> IF mem THEN 2 ELSE 1
    [] OTHER                 -> 1

\* Mnemonics whose cycle count the table fixes
FixedCycles == RegistryKeys \ {"LOC", "MEET"}

\* C15: running the registry initialiser of a mnemonic gives an Instruction
\* whose mnemonic is the registry key and whose cycle count is the one of
\* the table.
C15_RoundTripDecode ==
  call.fn = "registryInit" =>
    /\ ret.exc = "none"
    /\ ret.self.kind = "Instruction"
    /\ ret.self.obj.mnemonic = call.m
    /\ call.m \in FixedCycles => ret.self.obj.cycles = TableCycles(call.m, call.mem)

\* Position of the first character of t at or after position from that is not
\* a space (Len(t) + 1 if there is none)
SkipSpaces(t, from) ==
  IF \E k \in from..Len(t) : t[k] # " "
  THEN CHOOSE k \in from..Len(t) : t[k] # " " /\ \A j \in from..(k - 1) : t[j] = " "
  ELSE Len(t) + 1

\* Position of the first c in t (0 if there is none)
IndexOf(t, c) ==
  IF \E k \in 1..Len(t) : t[k] = c
  THEN CHOOSE k \in 1..Len(t) : t[k] = c /\ \A j \in 1..(k - 1) : t[j] # c
  ELSE 0

\* The token of t that starts at or after position from: the longest run of
\* characters that are neither a space nor ';'
TokenFrom(t, from) ==
  LET b == SkipSpaces(t, from)
      Stop == {k \in b..Len(t) : t[k] = " " \/ t[k] = ";"}
      e == IF Stop = {} THEN Len(t)
           ELSE (CHOOSE k \in Stop : \A j \in Stop : k <= j) - 1
  IN SubSeq(t, b, e)

\* The mnemonic of a line, upper-cased
MnemonicOf(t) == upper(TokenFrom(t, 1))

\* The line carries a mnemonic made of letters that is no key of the registry
UnknownMnemonic(t) ==
  /\ MnemonicOf(t) # <<>>
  /\ \A k \in 1..Len(MnemonicOf(t)) : _asmReaderIsAlpha(MnemonicOf(t)[k])
  /\ \A m \in RegistryKeys : MnemonicChars[m] # MnemonicOf(t)

\* C16: decoding a line whose mnemonic is no key of the registry raises no
\* exception and instruction.fromStr returns None.
C16_UnknownMnemonic ==
  (call.fn = "fromStr" /\ UnknownMnemonic(text)) =>
    (ret.exc = "none" /\ ret.self.kind = "None")

\* The allowed alphabet of a line of assembly code
AllowedChar(c) ==
  \/ _asmReaderIsAlpha(c)
  \/ _asmReaderIsDigit(c)
  \/ c \in {",", "(", ")", "[", "]", "_", ":", ".", ";", " "}

HasInvalidChar(t) == \E k \in 1..Len(t) : ~AllowedChar(t[k])

\* The call returned False from the return statement at the given line
ReturnedFalseAt(at) ==
  ret.exc = "none" /\ ret.self.kind = "bool" /\ ~ret.self.val /\ ret.self.at = at

\* C17: the character check of the syntax checker and of the decoder rejects
\* a line exactly when the line has a character outside the allowed alphabet.
C17_CharacterCheck ==
  /\ call.fn = "_asmReaderSyntaxCheck" => (ReturnedFalseAt(611) <=> HasInvalidChar(text))
  /\ call.fn = "_decode" => (ReturnedFalseAt(159) <=> HasInvalidChar(text))

\* The line starts, after optional spaces, with digits (optionally prefixed
\* with 0x) followed immediately by ':'
HasAddressLabel(t) ==
  LET b == SkipSpaces(t, 1)
      k == IndexOf(t, ":")
  IN /\ b < k
     /\ \A j \in b..(k - 1) :
          \/ _asmReaderIsDigit(t[j])
          \/ (j = b + 1 /\ t[b] = "0" /\ t[j] \in {"x", "X"} /\ k > b + 2)

\* The value returned is the 5-tuple (address, label, mnemonic, args, comment)
ReturnedFields ==
  ret.exc = "none" /\ ret.self.kind = "tuple" /\ Len(ret.self.items) = 5

\* C18: for a line that starts with an address label, _asmReaderParse returns
\* the whole digit sequence as the address and the first token after ':' as
\* the mnemonic.
C18_AddressLabel ==
  (call.fn = "_asmReaderParse" /\ HasAddressLabel(text)) =>
    /\ ReturnedFields
    /\ ret.self.items[1] = SubSeq(text, SkipSpaces(text, 1), IndexOf(text, ":") - 1)
    /\ ret.self.items[3] = TokenFrom(text, IndexOf(text, ":") + 1)

HasChar(t, c) == \E k \in 1..Len(t) : t[k] = c

\* C19: for a line with ';', _asmReaderParse puts every character after the
\* first ';' in the comment and keeps ';' out of the mnemonic and the args.
C19_Comment ==
  (call.fn = "_asmReaderParse" /\ HasChar(text, ";")) =>
    /\ ReturnedFields
    /\ ret.self.items[5] = SubSeq(text, IndexOf(text, ";") + 1, Len(text))
    /\ ~HasChar(ret.self.items[3], ";")
    /\ \A n \in 1..Len(ret.self.items[4]) : ~HasChar(ret.self.items[4][n], ";")

\* t without its leading and trailing spaces
Trim(t) ==
  LET NonSpace == {k \in 1..Len(t) : t[k] # " "}
  IN IF NonSpace = {} THEN <<>>
     ELSE SubSeq(t, CHOOSE k \in NonSpace : \A j \in NonSpace : k <= j,
                    CHOOSE k \in NonSpace : \A j \in NonSpace : j <= k)

\* The comma-separated pieces of t, trimmed, in order
RECURSIVE SplitArgs(_)
SplitArgs(t) ==
  IF IndexOf(t, ",") = 0 THEN <<Trim(t)>>
  ELSE <<Trim(SubSeq(t, 1, IndexOf(t, ",") - 1))>>
         \o SplitArgs(SubSeq(t, IndexOf(t, ",") + 1, Len(t)))

IsWord(t) ==
  t # <<>> /\ \A k \in 1..Len(t) : _asmReaderIsAlpha(t[k]) \/ _asmReaderIsDigit(t[k])

\* The part of the line after the space that ends the mnemonic
ArgsPart(t) == SubSeq(t, IndexOf(t, " ") + 1, Len(t))

\* The line has the form 'MNEMONIC a1, a2, ..., an' with n >= 1
HasArgList(t) ==
  /\ IndexOf(t, " ") > 1
  /\ \A k \in 1..(IndexOf(t, " ") - 1) : _asmReaderIsAlpha(t[k])
  /\ \A n \in 1..Len(SplitArgs(ArgsPart(t))) : IsWord(SplitArgs(ArgsPart(t))[n])

\* C20: for a line 'MNEMONIC a1, a2, ..., an', _asmReaderParse returns the
\* args a1 .. an, one per comma-separated token, in order, trimmed, with the
\* duplicates and the last token.
C20_ArgList ==
  (call.fn = "_asmReaderParse" /\ HasArgList(text)) =>
    (ReturnedFields /\ ret.self.items[4] = SplitArgs(ArgsPart(text)))

\* ------------------------------------------------------------------------
\* Program load
\* ------------------------------------------------------------------------
\* A Python str from its characters
RECURSIVE Join(_)
Join(s) == IF s = <<>> THEN "" ELSE s[1] \o Join(Tail(s))

\* The instruction text of a line of the file: normalised and stripped
InstrText(ln) == strip(_asmReaderFormatLine(ln))

\* The line parses and decodes: allowed characters and a registry mnemonic
LineDecodes(ln) ==
  /\ ~HasInvalidChar(InstrText(ln))
  /\ \E m \in RegistryKeys : MnemonicChars[m] = MnemonicOf(InstrText(ln))

\* The file just handed to loadFromFile
LoadedFile == AsmFiles[arg]

\* Address of the k-th line (k from 0) of a file without explicit addresses
AddrOfLine(k) == cpu0.resetAddr + k

\* C21: after construction and after any load, every address of
\* [0, INSTRUCTION_MEM_SIZE) holds an instruction, NOP where the program put
\* nothing and where the line failed; a failing line does not abort the load.
C21_NopDefault ==
  /\ DOMAIN cpu0.iMem = ValidPCs
  /\ lastOp = "none" => \A a \in ValidPCs : cpu0.iMem[a] = "NOP"
  /\ lastOp = "loadFromFile" =>
       /\ exc = "none"
       /\ \A a \in ValidPCs :
            (\/ ~(\E k \in 0..(Len(LoadedFile.lines) - 1) : a = AddrOfLine(k))
             \/ \E k \in 0..(Len(LoadedFile.lines) - 1) :
                  a = AddrOfLine(k) /\ ~LineDecodes(LoadedFile.lines[k + 1]))
            => cpu0.iMem[a] = "NOP"

\* C22: loadFromFile puts the first instruction of the file at resetAddr and
\* the k-th instruction of a file without explicit addresses at resetAddr + k.
C22_ContiguousLoad ==
  (lastOp = "loadFromFile" /\ LoadedFile.exists) =>
    \A k \in 0..(Len(LoadedFile.lines) - 1) :
      LineDecodes(LoadedFile.lines[k + 1]) =>
        cpu0.iMem[AddrOfLine(k)] = Join(InstrText(LoadedFile.lines[k + 1]))

\* ------------------------------------------------------------------------
\* Execution of NOP and of Example 3
\* ------------------------------------------------------------------------
\* C23: step() on an untrapped core standing on NOP increases PC by 1 and
\* changes nothing else: W, statReg, stack, isTrapped, nCyclesLost and the
\* data memory keep their values.
C23_NopFrame ==
  [][ (/\ Called("step") /\ ~cpu0.isTrapped
       /\ cpu0.iMem[cpu0.PC] = "NOP" /\ cpu0.PC + 1 \in ValidPCs)
      => cpu0' = [cpu0 EXCEPT !.PC = cpu0.PC + 1] ]_vars

\* C24: with NOP, NOP, JZ 0 in the instruction memory and no flag set, four
\* step() calls from PC = 0 (1 + 1 + 2 cycles) leave PC = 3 and the core
\* untrapped.
C24_Example3 ==
  (nCalls = 4 /\ onlySteps /\ cpu0.statReg = 0) =>
    (cpu0.PC = Len(Example3Program) /\ ~cpu0.isTrapped)

\* ------------------------------------------------------------------------
\* cpu._asmReaderConsumeSpace
\* ------------------------------------------------------------------------
\* C25: _asmReaderConsumeSpace(s) is s without its maximal prefix of spaces,
\* every later character kept, inner and trailing spaces included; a string
\* of spaces only gives the empty string.
C25_ConsumeSpace ==
  consumed.done =>
    /\ consumed.out = SubSeq(line, SkipSpaces(line, 1), Len(line))
    /\ AllSpaces(line) => consumed.out = <<>>

\* C25 witness: the leading spaces of a line that has several of them, an
\* inner space and a trailing space have been consumed
C25_Witness ==
  /\ consumed.done /\ Len(line) >= 6
  /\ line[1] = " " /\ line[2] = " " /\ line[3] # " "
  /\ line[Len(line)] = " "
  /\ \E k \in 4..(Len(line) - 2) : line[k] = " " /\ line[k + 1] # " "

\* ------------------------------------------------------------------------
\* Line normaliser: characters kept
\* ------------------------------------------------------------------------
\* s with all its spaces deleted
NoSpaces(s) == SelectSeq(s, LAMBDA c : c # " ")

\* Input of the n-th call of the line normaliser
FormatLineInput(n) == IF n = 1 THEN line ELSE results[n - 1]

IsBareMnemonic(t) == \E m \in RegistryKeys : t = MnemonicChars[m]

\* C26: _asmReaderSyntaxCheck returns True or False on every line, False for
\* the empty string and True for a well-formed line such as a bare mnemonic.
C26_SyntaxCheckValue ==
  call.fn = "_asmReaderSyntaxCheck" =>
    /\ ret.exc = "none"
    /\ ret.self.kind = "bool"
    /\ text = <<>> => ~ret.self.val
    /\ IsBareMnemonic(text) => ret.self.val

\* C27: _asmReaderParse returns, for every string of spaces only, what it
\* returns for the empty string: the same number of fields, all of them
\* empty.
C27_BlankParse ==
  (call.fn = "_asmReaderParse" /\ AllSpaces(text)) =>
    /\ ret.exc = "none"
    /\ ret.self.kind = "tuple"
    /\ Len(ret.self.items) = Len(_asmReaderParse(<<>>).self.items)
    /\ \A n \in 1..Len(ret.self.items) : ret.self.items[n] = <<>>

\* C29: _asmReaderHasLabel returns True exactly when the line starts, after
\* optional spaces, with an address label; it returns False for the empty
\* string and for a line without ':'.
C29_HasLabel ==
  call.fn = "_asmReaderHasLabel" =>
    /\ ret.exc = "none"
    /\ ret.self.kind = "bool"
    /\ ret.self.val <=> HasAddressLabel(text)

\* ------------------------------------------------------------------------
\* Trap flag
\* ------------------------------------------------------------------------
\* C28: isTrapped goes from false to true only in a call of _setPC or _pcJump
\* that requests a PC outside [0, INSTRUCTION_MEM_SIZE); construction, step(),
\* reset(), loadFromFile() and an in-range _setPC never set it.
C28_TrapOnlyOutOfRange ==
  /\ lastOp = "none" => ~cpu0.isTrapped
  /\ [][ (~cpu0.isTrapped /\ cpu0'.isTrapped) =>
            \/ Called("_setPC")  /\ arg' \notin ValidPCs
            \/ Called("_pcJump") /\ cpu0.PC + arg' \notin ValidPCs ]_vars

\* C28 witness: a request for a negative address has trapped a core that had
\* been moved inside the memory before
C28_Witness ==
  /\ cpu0.isTrapped /\ lastOp = "_setPC" /\ arg < 0
  /\ cpu0.PC > 0 /\ nCalls >= 2

====
